---- MODULE Spec2Model ----
(***************************************************************************)
(* State-machine model of the Nest client of nickbabenko/nestga-ha:        *)
(*   nest.py      Nest.update, Storage, NestBase and the wrapper classes   *)
(*   ga_auth.py   initialize and its three HTTP exchanges                  *)
(*   __init__.py  the entity update call site, async_setup,                *)
(*                async_setup_entry, the services and the broker thread    *)
(*   camera.py    NestCamera.camera_image                                  *)
(* Strings of the form "{prefix}.{uuid}" are modelled as sequences of      *)
(* tokens, e.g. <<"device", ".", "u1">>, so that startswith and replace    *)
(* are computed, not assumed.  A dict is a function on its set of keys.    *)
(***************************************************************************)
EXTENDS Integers, Sequences, FiniteSets, TLC

VARIABLES
    client,       \* life of the Nest object: "new" (in __init__), "ready", "dead"
    storage,      \* Storage._items : type -> (id -> wrapper)
    last_update,  \* Nest._last_update, NoneTime or a naive UTC timestamp
    allocs,       \* number of wrapper objects stored so far (object identities)
    now,          \* real time, in seconds of UTC
    utc_offset,   \* host setting: local time = UTC + utc_offset
    server,       \* what the Nest server answers to an app_launch POST right now
    last,         \* what the most recent update() call did
    session,      \* Nest._access_token and Nest._user_id
    hass_data,    \* hass.data: is DATA_NEST_CONFIG set, and its "account" dict
    pc,           \* per caller of ga_auth.initialize: the statement it is at
    frame,        \* per caller: the locals of initialize
    http_log,     \* per caller: the HTTP exchanges of its current call
    entry_account, \* per caller: the "account" dict as it was when it called
    setup,        \* async_setup: the statement it is at and what it raised
    cam,          \* one NestCamera entity: its fields and its last camera_image call
    device_data,  \* the raw data (_data) of the wrappers whose methods are called
    writes,       \* the write requests sent to the Nest API so far
    op,           \* the most recent call of a wrapper method or module function
    broker        \* the thread of nest_update_event_broker, the host's run state
                  \* and nest.update_event

(***************************************************************************)
(* Bounds of the model.                                                    *)
(***************************************************************************)
MaxBuckets == 2      \* buckets in one app_launch response
MaxTicks == 2        \* clock ticks in one behaviour

UtcOffsets == {-3600, 0, 3600}

(***************************************************************************)
(* nest.py, constants.                                                     *)
(***************************************************************************)
STRUCTURE == "structure"
THERMOSTAT == "thermostat"
SMOKE_CO_ALARM == "smoke_co_alarm"
CAMERA == "camera"
WHERE == "where"

\* const.py: the keys of the account map
CONF_JWT == "jwt"
CONF_TRANSPORT_URL == "transport_url"
CONF_USER_ID == "user_id"

\* the table gone wrong: camera buckets are taken for thermostats
BUCKETS_quartz ==
    [link |-> THERMOSTAT, device |-> THERMOSTAT, schedule |-> THERMOSTAT,
     shared |-> THERMOSTAT, where |-> WHERE, quartz |-> THERMOSTAT,
     structure |-> STRUCTURE]

\* BUCKETS, in the insertion order that iterating BUCKETS.keys() follows
BUCKETS ==
    [link |-> THERMOSTAT, device |-> THERMOSTAT, schedule |-> THERMOSTAT,
     shared |-> THERMOSTAT, where |-> WHERE, quartz |-> CAMERA,
     structure |-> STRUCTURE]

BUCKETS_keys ==
    <<"link", "device", "schedule", "shared", "where", "quartz", "structure">>

\* timedelta(seconds=30) of _should_update
GateSeconds == 30

\* the clock advances in steps of the gate window: a call is made at the
\* time of the last poll, at the end of its window, or after it
TickSteps == {GateSeconds}
Horizon == MaxTicks * GateSeconds

None == [NoneType |-> TRUE]
NoneTime == -1

(***************************************************************************)
(* Python built-ins used by the code.                                      *)
(***************************************************************************)
\* str.startswith
startswith(s, p) == Len(s) >= Len(p) /\ SubSeq(s, 1, Len(p)) = p

\* str.replace(p, ""): every non-overlapping occurrence, left to right
RECURSIVE str_remove(_, _)
str_remove(s, p) ==
    IF s = <<>> THEN <<>>
    ELSE IF startswith(s, p) THEN str_remove(SubSeq(s, Len(p) + 1, Len(s)), p)
    ELSE <<Head(s)>> \o str_remove(Tail(s), p)

\* dict.update gone wrong: keys that exist already are not overwritten
dict_update_keep(d, e) ==
    [k \in DOMAIN d \cup DOMAIN e |-> IF k \in DOMAIN d THEN d[k] ELSE e[k]]

\* dict.update: shallow, key by key
dict_update(d, e) ==
    [k \in DOMAIN d \cup DOMAIN e |-> IF k \in DOMAIN e THEN e[k] ELSE d[k]]

(***************************************************************************)
(* Wrapper classes.                                                        *)
(***************************************************************************)
NestBase_subclasses == <<"Where", "Device", "Structure", "ActivityZone", "CameraEvent">>
Device_subclasses == <<"Thermostat", "SmokeCoAlarm", "Camera">>

is_handler_for(cls, type) ==
    CASE cls = "Where" -> type = WHERE
      [] cls = "Thermostat" -> type = THERMOSTAT
      [] cls = "Camera" -> type = CAMERA
      [] cls = "Structure" -> type = STRUCTURE
      [] OTHER -> FALSE      \* Device, SmokeCoAlarm, ActivityZone, CameraEvent

\* NestBase.__init__: _id and _data (the caller's dict itself)
NestBase_init(cls, obj, id, data) ==
    [cls |-> cls, obj |-> obj, id |-> id, data |-> data]

\* cls(id, data, nest_api): Where.__init__ reads data['wheres']
construct(cls, obj, id, data) ==
    IF cls = "Where" /\ "wheres" \notin DOMAIN data
    THEN [raised |-> "KeyError", item |-> None]
    ELSE [raised |-> "none", item |-> NestBase_init(cls, obj, id, data)]

handlers(classes, type) ==
    SelectSeq(classes, LAMBDA cls : is_handler_for(cls, type))

\* nest_object gone wrong: the wrapper is handed the key with its type
nest_object_rawkey(type, id, data, obj) ==
    LET a == handlers(NestBase_subclasses \o Device_subclasses, type)
    IN  IF a # <<>> THEN construct(Head(a), obj, <<type, ".">> \o id, data)
        ELSE [raised |-> "ValueError", item |-> None]

\* nest_object gone wrong: a type without handler yields no object, silently
nest_object_silent(type, id, data, obj) ==
    LET a == handlers(NestBase_subclasses \o Device_subclasses, type)
    IN  IF a # <<>> THEN construct(Head(a), obj, id, data)
        ELSE [raised |-> "none", item |-> None]

\* the result's "logged" field is there when _LOGGER.error was called
nest_object(type, id, data, obj) ==
    LET a == handlers(NestBase_subclasses, type)
        b == handlers(Device_subclasses, type)
    IN  IF a # <<>> THEN construct(Head(a), obj, id, data)
        ELSE IF b # <<>> THEN construct(Head(b), obj, id, data)
        ELSE [raised |-> "ValueError", item |-> None, logged |-> "error"]

\* NestBase.set gone wrong: the payload replaces the raw data
NestBase_set_replace(item, data) == [item EXCEPT !.data = data]

\* NestBase.set
NestBase_set(item, data) == [item EXCEPT !.data = dict_update(item.data, data)]

\* NestBase.id and NestBase.serial
NestBase_id(item) == item.id
NestBase_serial(item) == item.id

(***************************************************************************)
(* Storage.                                                                *)
(***************************************************************************)
Storage_init == <<>>

\* Storage.get gone wrong: the lookup never finds the item
Storage_get_miss(items, type, id) == None

Storage_get(items, type, id) ==
    IF type \in DOMAIN items /\ id \in DOMAIN items[type]
    THEN items[type][id]
    ELSE None

\* Storage.add gone wrong: a type seen for the first time resets the mapping
Storage_add_reset(items, type, id, item) ==
    IF type \in DOMAIN items
    THEN [items EXCEPT ![type] =
             [k \in DOMAIN items[type] \cup {id} |-> IF k = id THEN item ELSE items[type][k]]]
    ELSE [t \in {type} |-> [k \in {id} |-> item]]

Storage_add(items, type, id, item) ==
    LET list == IF type \in DOMAIN items THEN items[type] ELSE <<>>
        list2 == [k \in DOMAIN list \cup {id} |-> IF k = id THEN item ELSE list[k]]
    IN  [t \in DOMAIN items \cup {type} |-> IF t = type THEN list2 ELSE items[t]]

\* Storage._items[type][id] = item for an item that is already there
Storage_put(items, type, id, item) ==
    [items EXCEPT ![type] = [@ EXCEPT ![id] = item]]

(***************************************************************************)
(* Inputs: what the server may answer to one app_launch POST.              *)
(***************************************************************************)
P1 == [name |-> 1]
P2 == [name |-> 2, wheres |-> 1]

\* a received bucket: {"object_key": "{prefix}.{uuid}", "value": {...}}
Bucket(prefix, uuid, value) == [object_key |-> <<prefix, ".">> \o uuid, value |-> value]

SampleBuckets ==
    { Bucket("device", <<"u1">>, P1), Bucket("shared", <<"u1">>, P2),
      Bucket("where", <<"u1">>, P2), Bucket("where", <<"u1">>, P1),
      Bucket("topaz", <<"u1">>, P1) }

Responses == UNION { [1..n -> SampleBuckets] : n \in 0..MaxBuckets }

\* outcome of requests.post and of response.json()
HttpOutcomes == {"ok", "RequestException", "JSONDecodeError"}

\* a JSON body without 'updated_buckets' (what a stale session gets)
ErrorBody == [error |-> "unauthorized"]
Bodies == { [updated_buckets |-> r] : r \in Responses } \cup {ErrorBody}

(***************************************************************************)
(* Nest.                                                                   *)
(***************************************************************************)
\* datetime.datetime.now(): naive local time
datetime_now(t, offset) == t + offset
\* datetime.datetime.utcnow(): naive UTC time
datetime_utcnow(t) == t

_should_update(lu, t, offset) ==
    lu = NoneTime \/ lu < datetime_now(t, offset) - GateSeconds

\* Nest._handle_response: the decoded body, or None after logging a decode error
_handle_response(http, body) ==
    IF http = "JSONDecodeError"
    THEN [value |-> None, logged |-> {"JSONDecodeError"}]
    ELSE [value |-> body, logged |-> {}]

\* Nest.post: a RequestException is logged and swallowed, the call returns None
post(http, body) ==
    IF http = "RequestException"
    THEN [value |-> None, logged |-> {"RequestException"}]
    ELSE _handle_response(http, body)

\* the prefix test gone wrong: a bucket is stored whatever its key begins with
match_bucket_any(st, received_bucket, bucket) ==
    [st EXCEPT !.items = Storage_add(st.items, BUCKETS[bucket], received_bucket.object_key,
                             NestBase_init("Device", st.allocs + 1,
                                           received_bucket.object_key,
                                           received_bucket.value)),
               !.allocs = st.allocs + 1]

\* body of "if received_bucket['object_key'].startswith(f'{bucket}.')"
match_bucket(st, received_bucket, bucket) ==
    LET sensor_data == received_bucket.value
        object_key == received_bucket.object_key
        udid == str_remove(object_key, <<bucket, ".">>)
        item_type == BUCKETS[bucket]
        item == Storage_get(st.items, item_type, udid)
        made == nest_object(item_type, udid, sensor_data, st.allocs + 1)
    IN  IF ~startswith(object_key, <<bucket, ".">>) THEN st
        ELSE IF item = None
        THEN IF made.raised # "none"
             THEN [st EXCEPT !.raised = made.raised]
             ELSE [st EXCEPT !.items = Storage_add(st.items, item_type, udid, made.item),
                             !.allocs = st.allocs + 1]
        ELSE [st EXCEPT !.items =
                 Storage_put(st.items, item_type, udid, NestBase_set(item, sensor_data))]

\* for bucket in BUCKETS.keys()
RECURSIVE for_bucket(_, _, _)
for_bucket(st, received_bucket, keys) ==
    IF keys = <<>> \/ st.raised # "none" THEN st
    ELSE for_bucket(match_bucket(st, received_bucket, Head(keys)),
                    received_bucket, Tail(keys))

\* for received_bucket in response["updated_buckets"]
RECURSIVE for_received(_, _)
for_received(st, updated_buckets) ==
    IF updated_buckets = <<>> \/ st.raised # "none" THEN st
    ELSE for_received(for_bucket(st, Head(updated_buckets), BUCKETS_keys),
                      Tail(updated_buckets))

\* the except clauses of update(): both log and re-raise; anything else propagates
update_except(raised) ==
    IF raised \in {"RequestException", "KeyError"}
    THEN [raised |-> raised, logged |-> {raised}]
    ELSE [raised |-> raised, logged |-> {}]

\* update gone wrong: _last_update is set before the response is processed,
\* so a failed poll is stamped too
update_stamp_first(items, n, lu, t, offset, http, body) ==
    LET same == [items |-> items, allocs |-> n, last_update |-> lu]
        response == post(http, body)
        st == for_received([items |-> items, allocs |-> n, raised |-> "none"],
                           response.value.updated_buckets)
        raised ==
            IF response.value = None THEN "TypeError"
            ELSE IF "updated_buckets" \notin DOMAIN response.value THEN "KeyError"
            ELSE st.raised
        handled == update_except(raised)
    IN  IF ~_should_update(lu, t, offset)
        THEN same @@ [polled |-> FALSE, raised |-> "none", logged |-> {}]
        ELSE IF raised = "none"
        THEN [items |-> st.items, allocs |-> st.allocs,
              last_update |-> datetime_utcnow(t),
              polled |-> TRUE, raised |-> "none", logged |-> response.logged]
        ELSE IF response.value # None /\ "updated_buckets" \in DOMAIN response.value
        THEN [items |-> st.items, allocs |-> st.allocs,
              last_update |-> datetime_utcnow(t),
              polled |-> TRUE, raised |-> handled.raised,
              logged |-> response.logged \cup handled.logged]
        ELSE [items |-> items, allocs |-> n, last_update |-> datetime_utcnow(t),
              polled |-> TRUE, raised |-> handled.raised,
              logged |-> response.logged \cup handled.logged]

\* update gone wrong: a failure while the buckets are processed undoes the
\* buckets processed before it
update_rollback(items, n, lu, t, offset, http, body) ==
    LET same == [items |-> items, allocs |-> n, last_update |-> lu]
        response == post(http, body)
        st == for_received([items |-> items, allocs |-> n, raised |-> "none"],
                           response.value.updated_buckets)
        raised ==
            IF response.value = None THEN "TypeError"
            ELSE IF "updated_buckets" \notin DOMAIN response.value THEN "KeyError"
            ELSE st.raised
        handled == update_except(raised)
    IN  IF ~_should_update(lu, t, offset)
        THEN same @@ [polled |-> FALSE, raised |-> "none", logged |-> {}]
        ELSE IF raised = "none"
        THEN [items |-> st.items, allocs |-> st.allocs,
              last_update |-> datetime_utcnow(t),
              polled |-> TRUE, raised |-> "none", logged |-> response.logged]
        ELSE IF response.value # None /\ "updated_buckets" \in DOMAIN response.value
        THEN [items |-> items, allocs |-> n, last_update |-> lu,
              polled |-> TRUE, raised |-> handled.raised,
              logged |-> response.logged \cup handled.logged]
        ELSE same @@ [polled |-> TRUE, raised |-> handled.raised,
                      logged |-> response.logged \cup handled.logged]

\* Nest.update on (items, allocs, lu) at real time t; http and body are the
\* server's answer if a request is made
update(items, n, lu, t, offset, http, body) ==
    LET same == [items |-> items, allocs |-> n, last_update |-> lu]
        response == post(http, body)
        st == for_received([items |-> items, allocs |-> n, raised |-> "none"],
                           response.value.updated_buckets)
        raised ==
            IF response.value = None THEN "TypeError"
            ELSE IF "updated_buckets" \notin DOMAIN response.value THEN "KeyError"
            ELSE st.raised
        handled == update_except(raised)
    IN  IF ~_should_update(lu, t, offset)
        THEN same @@ [polled |-> FALSE, raised |-> "none", logged |-> {}]
        ELSE IF raised = "none"
        THEN [items |-> st.items, allocs |-> st.allocs,
              last_update |-> datetime_utcnow(t),
              polled |-> TRUE, raised |-> "none", logged |-> response.logged]
        ELSE IF response.value # None /\ "updated_buckets" \in DOMAIN response.value
        THEN [items |-> st.items, allocs |-> st.allocs, last_update |-> lu,
              polled |-> TRUE, raised |-> handled.raised,
              logged |-> response.logged \cup handled.logged]
        ELSE same @@ [polled |-> TRUE, raised |-> handled.raised,
                      logged |-> response.logged \cup handled.logged]

(***************************************************************************)
(* The state machine of one Nest client.                                   *)
(***************************************************************************)
clientvars ==
    <<client, storage, last_update, allocs, now, utc_offset, server, last, session>>
authvars == <<hass_data, pc, frame, http_log, entry_account>>
hassvars == <<setup, cam, broker>>
wrappervars == <<device_data, writes, op>>
vars == <<clientvars, authvars, hassvars, wrappervars>>

\* the server's possible answers: <<outcome of the HTTP exchange, JSON body>>
Answers == { <<h, b>> \in HttpOutcomes \X Bodies : h # "ok" => b = ErrorBody }

\* The most recent call: where it came from, whether it issued the POST, what
\* it raised and logged.  About the most recent POST: poll_raised is what that
\* call raised, fresh says that `server` is still the answer it was given, and
\* replay that the POST before it had been given the same answer and succeeded.
\* About the most recent request: url and headers are what it was sent with,
\* account_jwt is the JWT that hass.data's account map held at that time.
NoCall ==
    [site |-> "none", polled |-> FALSE, raised |-> "none", logged |-> {},
     poll_raised |-> "none", fresh |-> FALSE, replay |-> FALSE,
     url |-> <<>>, headers |-> <<>>, account_jwt |-> "none"]

\* before __init__ has set the two attributes
NoSession == [access_token |-> "unset", user_id |-> "unset"]

\* _default_headers gone wrong: the token is read from the shared account map
_default_headers_account(self, account) ==
    [Authorization |-> <<"Basic", IF CONF_JWT \in DOMAIN account
                                  THEN account[CONF_JWT] ELSE "none">>,
     User_Agent |-> "USER_AGENT"]

\* Nest._default_headers; account is hass.data's account map, which it
\* does not read
_default_headers(self, account) ==
    [Authorization |-> <<"Basic", self.access_token>>, User_Agent |-> "USER_AGENT"]

\* f"/api/0.1/user/{self._user_id}/app_launch"
app_launch_path(self) == <<"/api/0.1/user/", self.user_id, "/app_launch">>

ClientInit ==
    /\ client = "new"
    /\ storage = Storage_init
    /\ last_update = NoneTime
    /\ allocs = 0
    /\ now = 0
    /\ utc_offset \in UtcOffsets
    /\ server \in Answers
    /\ last = NoCall
    /\ session = NoSession

\* one call of Nest.update from `site` on the object with the attributes self
Call(site, self) ==
    \E r \in {update(storage, allocs, last_update, now, utc_offset,
                     server[1], server[2])} :
        /\ storage' = r.items
        /\ allocs' = r.allocs
        /\ last_update' = r.last_update
        /\ last' = IF r.polled
                   THEN [site |-> site, polled |-> TRUE, raised |-> r.raised,
                         logged |-> r.logged, poll_raised |-> r.raised,
                         fresh |-> TRUE,
                         replay |-> last.fresh /\ last.poll_raised = "none",
                         url |-> app_launch_path(self),
                         headers |-> _default_headers(self, hass_data.account),
                         account_jwt |-> IF CONF_JWT \in DOMAIN hass_data.account
                                         THEN hass_data.account[CONF_JWT]
                                         ELSE "none"]
                   ELSE [last EXCEPT !.site = site, !.polled = FALSE,
                                     !.raised = r.raised, !.logged = r.logged]
        /\ UNCHANGED <<now, utc_offset, server, authvars, hassvars, wrappervars>>

\* Nest.__init__(access_token, user_id): the constructor sets the attributes
\* and ends with self.update(); if that raises, no Nest object comes to exist
Nest___init__(access_token, user_id) ==
    /\ client = "new"
    /\ session' = [access_token |-> access_token, user_id |-> user_id]
    /\ Call("init", session')
    /\ client' = IF last'.raised = "none" THEN "ready" ELSE "dead"

\* the constructor called with the credentials of one session
Nest_init == Nest___init__("j1", "user1")

\* NestSensorDevice.update: self._nest.update(), nothing else
NestSensorDevice_update ==
    /\ client = "ready"
    /\ Call("entity", session)
    /\ UNCHANGED <<client, session>>

\* the server's data or the session's validity changes; changes that no POST
\* observes in between are one change
Server_change ==
    /\ last.fresh
    /\ \E a \in Answers \ {server} : server' = a
    /\ last' = [last EXCEPT !.fresh = FALSE]
    /\ UNCHANGED <<client, storage, last_update, allocs, now, utc_offset, session,
                   authvars, hassvars, wrappervars>>

\* time passes
Tick ==
    /\ \E d \in TickSteps : now + d <= Horizon /\ now' = now + d
    /\ UNCHANGED <<client, storage, last_update, allocs, utc_offset, server, last,
                   session, authvars, hassvars, wrappervars>>

(***************************************************************************)
(* ga_auth.py: the auth sequence.                                          *)
(***************************************************************************)
Callers == {"c1", "c2"}

\* what the three endpoints may hand out
GoogleTokens == {"g1", "g2"}
Jwts == {"j1", "j2"}
Sessions == { [transport_url |-> "t1", userid |-> "user1"],
              [transport_url |-> "t2", userid |-> "user2"] }

\* an exchange raises (requests or json), or its JSON lacks the field read
\* from it, or it yields a value
Raises(exc) == [raised |-> exc, value |-> None]
Returns(v) == [raised |-> "none", value |-> v]

\* get_google_access_token: response.json()['access_token']
get_google_access_token_results ==
    {Raises("RequestException"), Raises("KeyError")} \cup { Returns(g) : g \in GoogleTokens }

\* get_jwt: response.json()['jwt']
get_jwt_results ==
    {Raises("RequestException"), Raises("KeyError")} \cup { Returns(j) : j \in Jwts }

\* get_token: json['urls']['transport_url'], json['userid']
get_token_results ==
    {Raises("RequestException"), Raises("KeyError")} \cup { Returns(x) : x \in Sessions }

NoFrame ==
    [google_access_token |-> "unset", jwt |-> "unset", transport_url |-> "unset",
     userid |-> "unset", raised |-> "none"]

\* initialize gone wrong: the JWT exchange is left out
initialize_flow_skip(label) ==
    CASE label = "get_google_access_token" -> "get_token"
      [] label = "get_jwt" -> "get_token"
      [] label = "get_token" -> "store_jwt"
      [] label = "store_jwt" -> "store_transport_url"
      [] label = "store_transport_url" -> "store_user_id"
      [] label = "store_user_id" -> "returned"

\* initialize gone wrong: the JWT is stored as soon as it is known
initialize_flow_eager(label) ==
    CASE label = "get_google_access_token" -> "get_jwt"
      [] label = "get_jwt" -> "store_jwt"
      [] label = "store_jwt" -> "get_token"
      [] label = "get_token" -> "store_transport_url"
      [] label = "store_transport_url" -> "store_user_id"
      [] label = "store_user_id" -> "returned"

\* the statements of initialize in the order the code runs them
initialize_flow(label) ==
    CASE label = "get_google_access_token" -> "get_jwt"
      [] label = "get_jwt" -> "get_token"
      [] label = "get_token" -> "store_jwt"
      [] label = "store_jwt" -> "store_transport_url"
      [] label = "store_transport_url" -> "store_user_id"
      [] label = "store_user_id" -> "returned"

InFlight ==
    {"get_google_access_token", "get_jwt", "get_token", "store_jwt",
     "store_transport_url", "store_user_id"}

AuthIdle ==
    /\ pc = [c \in Callers |-> "idle"]
    /\ frame = [c \in Callers |-> NoFrame]
    /\ http_log = [c \in Callers |-> <<>>]
    /\ entry_account = [c \in Callers |-> <<>>]

AuthInit ==
    /\ hass_data \in { [configured |-> b, account |-> <<>>] : b \in BOOLEAN }
    /\ AuthIdle

\* a caller enters initialize(hass, issue_token, cookie, region)
initialize_call(c) ==
    /\ pc[c] = "idle"
    /\ pc' = [pc EXCEPT ![c] = "get_google_access_token"]
    /\ frame' = [frame EXCEPT ![c] = NoFrame]
    /\ http_log' = [http_log EXCEPT ![c] = <<>>]
    /\ entry_account' = [entry_account EXCEPT ![c] = hass_data.account]
    /\ UNCHANGED <<hass_data, clientvars, wrappervars>>

\* one HTTP exchange of the sequence: the request is logged with the
\* credential it carries; a failure propagates out of initialize
exchange(c, label, url, sent, res, local) ==
    /\ pc[c] = label
    /\ http_log' = [http_log EXCEPT ![c] = Append(@, [url |-> url, sent |-> sent, got |-> res])]
    /\ IF res.raised = "none"
       THEN /\ frame' = [frame EXCEPT ![c] = local]
            /\ pc' = [pc EXCEPT ![c] = initialize_flow(label)]
       ELSE /\ frame' = [frame EXCEPT ![c].raised = res.raised]
            /\ pc' = [pc EXCEPT ![c] = "raised"]
    /\ UNCHANGED <<hass_data, entry_account, clientvars, hassvars, wrappervars>>

\* google_access_token = get_google_access_token(issue_token, cookie)
get_google_access_token(c) ==
    \E res \in get_google_access_token_results :
        exchange(c, "get_google_access_token", "issue_token", "cookie", res,
                 [frame[c] EXCEPT !.google_access_token = res.value])

\* jwt = get_jwt(google_access_token)
get_jwt(c) ==
    \E res \in get_jwt_results :
        exchange(c, "get_jwt", "URL_JWT", frame[c].google_access_token, res,
                 [frame[c] EXCEPT !.jwt = res.value])

\* transport_url, userid = get_token(jwt)
get_token(c) ==
    \E res \in get_token_results :
        exchange(c, "get_token", "URL_AUTH", frame[c].jwt, res,
                 [frame[c] EXCEPT !.transport_url = res.value.transport_url,
                                  !.userid = res.value.userid])

\* the three assignments gone wrong: the session is written in one piece
store_whole(c, label, key, value) ==
    /\ pc[c] = label
    /\ hass_data' = [hass_data EXCEPT !.account =
                         (CONF_JWT :> frame[c].jwt)
                             @@ (CONF_TRANSPORT_URL :> frame[c].transport_url)
                             @@ (CONF_USER_ID :> frame[c].userid)]
    /\ pc' = [pc EXCEPT ![c] = initialize_flow(label)]
    /\ UNCHANGED <<frame, http_log, entry_account, clientvars, hassvars, wrappervars>>

\* hass.data[DATA_NEST_CONFIG]["account"][key] = value; the lookup of
\* DATA_NEST_CONFIG raises KeyError when async_setup has not stored it
store(c, label, key, value) ==
    /\ pc[c] = label
    /\ IF hass_data.configured
       THEN /\ hass_data' = [hass_data EXCEPT !.account = dict_update(@, [k \in {key} |-> value])]
            /\ pc' = [pc EXCEPT ![c] = initialize_flow(label)]
            /\ UNCHANGED frame
       ELSE /\ frame' = [frame EXCEPT ![c].raised = "KeyError"]
            /\ pc' = [pc EXCEPT ![c] = "raised"]
            /\ UNCHANGED hass_data
    /\ UNCHANGED <<http_log, entry_account, clientvars, hassvars, wrappervars>>

store_jwt(c) == store(c, "store_jwt", CONF_JWT, frame[c].jwt)
store_transport_url(c) ==
    store(c, "store_transport_url", CONF_TRANSPORT_URL, frame[c].transport_url)
store_user_id(c) == store(c, "store_user_id", CONF_USER_ID, frame[c].userid)

\* initialize is left, by return or by the exception; what the caller does
\* next depends on the call site
initialize_exit(c) ==
    /\ pc[c] \in {"returned", "raised"}
    /\ pc' = [pc EXCEPT ![c] = "idle"]
    /\ frame' = [frame EXCEPT ![c] = NoFrame]
    /\ http_log' = [http_log EXCEPT ![c] = <<>>]
    /\ entry_account' = [entry_account EXCEPT ![c] = <<>>]
    /\ UNCHANGED <<clientvars, wrappervars>>

\* a call of initialize from outside the integration, one at a time
initialize_alone(c) ==
    /\ \A d \in Callers \ {c} : pc[d] = "idle"
    /\ initialize_call(c)
    /\ UNCHANGED hassvars

(***************************************************************************)
(* nest.py: the methods of the wrappers.                                   *)
(***************************************************************************)
NoOp == [name |-> "none"]

WrappersIdle ==
    /\ device_data = <<>>
    /\ writes = <<>>
    /\ op = NoOp

\* the device types named in nest.py
Types == {STRUCTURE, THERMOSTAT, SMOKE_CO_ALARM, CAMERA, WHERE}

\* a call of the module function nest_object(type, id, data, nest_api)
nest_object_call ==
    /\ \E type \in Types :
          \E r \in {nest_object(type, <<"u1">>, P2, 0)} :
              op' = [name |-> "nest_object", type |-> type, raised |-> r.raised,
                     logged |-> "logged" \in DOMAIN r,
                     cls |-> IF r.item = None THEN "none" ELSE r.item.cls]
    /\ UNCHANGED <<clientvars, authvars, hassvars, device_data, writes>>

\* dict.get(key, default)
dict_get(d, k, default) == IF k \in DOMAIN d THEN d[k] ELSE default

\* str.lower
lower(str) ==
    CASE str = "C" -> "c" [] str = "F" -> "f"
      [] str = "HEAT" -> "heat" [] str = "COOL" -> "cool"
      [] OTHER -> str

\* None where a number or a string is expected
NoneNumber == -100000
NoneStr == "None"

\* temperatures are fixed-point numbers, TempUnit units to the degree
TempUnit == 20
MaxTemp == 45
Temps == -MaxTemp..MaxTemp

\* round gone wrong: a tie goes up
py_round_up(n, d) ==
    IF 2 * (n % d) < d THEN n \div d ELSE (n \div d) + 1

\* round(n / d) of Python 3, d > 0: the nearest integer, of two the even one
py_round(n, d) ==
    LET q == n \div d
        r == n % d
    IN  IF 2 * r < d THEN q
        ELSE IF 2 * r > d THEN q + 1
        ELSE IF q % 2 = 0 THEN q ELSE q + 1

\* datetime.isoformat(): a string made from the time
isoformat(t) == <<"iso", t>>

\* timedelta(minutes=1), in seconds
EtaWindow == 60

AWAY_MAP == [on |-> "away", away |-> "away", off |-> "home", home |-> "home"]

\* self._set(path, data): no class of nest.py defines _set, the attribute
\* lookup fails and nothing is sent
_set(ws, path, data) == [raised |-> "AttributeError", writes |-> ws]

Thermostat_temperature_scale(data) == dict_get(data, "temperature_scale", NoneStr)
Thermostat_mode(data) == dict_get(data, "target_temperature_type", NoneStr)

\* Thermostat._temp_key: "%s_%s" % (key, self.temperature_scale.lower())
Thermostat__temp_key(data, key) ==
    IF Thermostat_temperature_scale(data) = NoneStr
    THEN Raises("AttributeError")
    ELSE Returns(<<key, "_", lower(Thermostat_temperature_scale(data))>>)

\* Thermostat._round_temp, on and to fixed-point numbers
Thermostat__round_temp(data, temp) ==
    IF Thermostat_temperature_scale(data) = "C"
    THEN (py_round(temp * 2, TempUnit) * TempUnit) \div 2
    ELSE py_round(temp, TempUnit) * TempUnit

\* the data that the target setter builds; value is a number, or a pair in
\* heat-cool mode
Thermostat_target_data(data, value) ==
    IF Thermostat_mode(data) = "heat-cool"
    THEN [target_temperature_low |-> Thermostat__round_temp(data, value[1]),
          target_temperature_high |-> Thermostat__round_temp(data, value[2])]
    ELSE [target_temperature |-> Thermostat__round_temp(data, value)]

\* the data that the eco_temperature setter builds from (low, high)
Thermostat_eco_temperature_data(data, low, high) ==
    LET klow == Thermostat__temp_key(data, "eco_temperature_low")
        khigh == Thermostat__temp_key(data, "eco_temperature_high")
        dlow == IF low # NoneNumber THEN klow.value :> low ELSE <<>>
        dhigh == IF high # NoneNumber THEN khigh.value :> high ELSE <<>>
    IN  IF low # NoneNumber /\ klow.raised # "none" THEN Raises(klow.raised)
        ELSE IF high # NoneNumber /\ khigh.raised # "none" THEN Raises(khigh.raised)
        ELSE Returns(dhigh @@ dlow)

\* Structure.thermostats and Structure.num_thermostats
Structure_thermostats(data) == <<>>
Structure_num_thermostats(data) == 0

\* the wrappers whose methods are called: a thermostat, a structure, a camera
ThermostatData ==
    { scale @@ [target_temperature_type |-> m, target_temperature |-> 400] @@ link :
        scale \in {<<>>, [temperature_scale |-> "C"], [temperature_scale |-> "F"]},
        m \in {"heat", "heat-cool"},
        link \in {<<>>, [structure |-> "structure.s1"]} }

NewDevices(thermostat) ==
    [thermostat |-> thermostat,
     structure |-> [name |-> "home1", away |-> "home"],
     camera |-> [streaming_state |-> "streaming-enabled"]]

\* values handed to the temperature setters
SetterTemps == {405, 410, 412}

\* the call has ended with an exception before self._set was reached
op_raised(name, value, exc) ==
    /\ op' = [name |-> name, value |-> value, path |-> "none", data |-> <<>>,
              raised |-> exc]
    /\ UNCHANGED <<device_data, writes, clientvars, authvars, hassvars>>

\* the last statement of a setter: self._set(path, data)
call__set(name, value, path, data) ==
    \E r \in {_set(writes, path, data)} :
        /\ op' = [name |-> name, value |-> value, path |-> path, data |-> data,
                  raised |-> r.raised]
        /\ writes' = r.writes
        /\ UNCHANGED <<device_data, clientvars, authvars, hassvars>>

\* thermostat._round_temp(temp)
Thermostat__round_temp_call ==
    \E temp \in Temps :
        /\ op' = [name |-> "Thermostat._round_temp", value |-> temp,
                  result |-> Thermostat__round_temp(device_data.thermostat, temp)]
        /\ UNCHANGED <<device_data, writes, clientvars, authvars, hassvars>>

TargetValues ==
    IF Thermostat_mode(device_data.thermostat) = "heat-cool"
    THEN SetterTemps \X SetterTemps ELSE SetterTemps

\* thermostat.target = value
Thermostat_target_set ==
    \E value \in TargetValues :
        call__set("Thermostat.target", value, "devices/thermostats",
                  Thermostat_target_data(device_data.thermostat, value))

\* thermostat.temperature = value, which is self.target = value
Thermostat_temperature_set ==
    \E value \in TargetValues :
        call__set("Thermostat.temperature", value, "devices/thermostats",
                  Thermostat_target_data(device_data.thermostat, value))

\* thermostat.eco_temperature = (low, high)
Thermostat_eco_temperature_set ==
    \E low \in SetterTemps \cup {NoneNumber}, high \in SetterTemps \cup {NoneNumber} :
        \E r \in {Thermostat_eco_temperature_data(device_data.thermostat, low, high)} :
            IF r.raised # "none"
            THEN op_raised("Thermostat.eco_temperature", <<low, high>>, r.raised)
            ELSE call__set("Thermostat.eco_temperature", <<low, high>>,
                           "devices/thermostats", r.value)

\* thermostat.mode = value
Thermostat_mode_set ==
    \E value \in {"HEAT", "cool"} :
        call__set("Thermostat.mode", value, "devices/thermostats",
                  [hvac_mode |-> lower(value)])

\* thermostat.fan = value, for the keys True and False of FAN_MAP
Thermostat_fan_set ==
    \E value \in BOOLEAN :
        call__set("Thermostat.fan", value, "devices/thermostats",
                  [fan_timer_active |-> value])

\* structure.away = value
Structure_away_set ==
    \E value \in DOMAIN AWAY_MAP :
        call__set("Structure.away", value, "structures", [away |-> AWAY_MAP[value]])

\* structure.name = value
Structure_name_set ==
    \E value \in {"home2"} :
        call__set("Structure.name", value, "structures", [name |-> value])

\* camera.is_streaming = value
Camera_is_streaming_set ==
    \E value \in BOOLEAN :
        call__set("Camera.is_streaming", value, "devices/cameras",
                  [is_streaming |-> value])

\* Structure._set_eta(trip_id, eta_begin, eta_end)
Structure__set_eta(name, value, trip_id, eta_begin, eta_end) ==
    IF Structure_num_thermostats(device_data.structure) = 0
    THEN op_raised(name, value, "ValueError")
    ELSE IF trip_id = NoneStr
    THEN op_raised(name, value, "ValueError")
    ELSE call__set(name, value, "structures",
                   [eta |-> [trip_id |-> trip_id,
                             estimated_arrival_window_begin |-> eta_begin,
                             estimated_arrival_window_end |-> eta_end]])

TripIds == {"trip1", "trip2", NoneStr}
EtaTimes == {100, NoneNumber}

\* structure.set_eta(trip_id, eta_begin, eta_end=None)
Structure_set_eta ==
    \E trip_id \in TripIds, eta_begin \in EtaTimes, eta_end \in EtaTimes :
        IF eta_begin = NoneNumber
        THEN op_raised("Structure.set_eta", <<trip_id, eta_begin, eta_end>>, "ValueError")
        ELSE Structure__set_eta("Structure.set_eta", <<trip_id, eta_begin, eta_end>>,
                 trip_id, isoformat(eta_begin),
                 isoformat(IF eta_end = NoneNumber THEN eta_begin + EtaWindow ELSE eta_end))

\* structure.cancel_eta(trip_id)
Structure_cancel_eta ==
    \E trip_id \in TripIds :
        Structure__set_eta("Structure.cancel_eta", <<trip_id>>,
                           trip_id, 0, isoformat(datetime_utcnow(now)))

\* the services set_eta and cancel_eta for a target structure: they act only
\* if structure.thermostats is not empty, and log otherwise
service_set_eta ==
    IF Structure_thermostats(device_data.structure) # <<>>
    THEN call__set("service.set_eta", "home1", "structures", [away |-> AWAY_MAP["away"]])
    ELSE /\ op' = [name |-> "service.set_eta", value |-> "home1", path |-> "none",
                   data |-> <<>>, raised |-> "none"]
         /\ UNCHANGED <<device_data, writes, clientvars, authvars, hassvars>>

service_cancel_eta ==
    \E trip_id \in TripIds \ {NoneStr} :
        IF Structure_thermostats(device_data.structure) # <<>>
        THEN Structure__set_eta("service.cancel_eta", <<trip_id>>,
                                trip_id, 0, isoformat(datetime_utcnow(now)))
        ELSE /\ op' = [name |-> "service.cancel_eta", value |-> <<trip_id>>,
                       path |-> "none", data |-> <<>>, raised |-> "none"]
             /\ UNCHANGED <<device_data, writes, clientvars, authvars, hassvars>>

(***************************************************************************)
(* __init__.py: async_setup.                                               *)
(***************************************************************************)
\* the keys of the integration's configuration, as __init__.py names them
CONF_ISSUE_TOKEN == "issue_token"
CONF_COOKIE == "cookie"
CONF_REGION == "region"

\* conf = config[DOMAIN]: the keys CONFIG_SCHEMA requires, and "account"
conf_keys == {CONF_ISSUE_TOKEN, CONF_COOKIE, CONF_REGION, "account"}

\* the thread that runs async_setup
SetupThread == "c1"

\* async_setup before it runs; domain says whether DOMAIN is in config
NoSetup(domain) ==
    [pc |-> "start", domain |-> domain, conf_account |-> <<>>,
     raised |-> "none", auth |-> None]

\* initialize has no return statement
initialize_returns == None

\* user_id, jwt = await value
await_unpack(value) ==
    IF value = None THEN Raises("TypeError") ELSE Returns(value)

\* what the three exchanges of a call produced, None unless all succeeded
auth_result(c) ==
    IF Len(http_log[c]) = 3 /\ http_log[c][3].got.raised = "none"
    THEN [jwt |-> frame[c].jwt, userid |-> frame[c].userid]
    ELSE None

\* async_setup up to the call of ga_auth.initialize
async_setup_call ==
    /\ setup.pc = "start"
    /\ IF ~setup.domain
       THEN /\ setup' = [setup EXCEPT !.pc = "done"]
            /\ UNCHANGED <<authvars, clientvars, wrappervars>>
       ELSE /\ \A d \in Callers : pc[d] = "idle"
            /\ initialize_call(SetupThread)
            /\ setup' = [setup EXCEPT !.pc = "initialize", !.conf_account = <<>>]
    /\ UNCHANGED <<cam, broker>>

\* async_setup from the await on: unpack what initialize returned, fill
\* conf["account"], store conf as hass.data[DATA_NEST_CONFIG]
async_setup_resume(c) ==
    \E r \in { IF pc[c] = "raised" THEN Raises(frame[c].raised)
               ELSE await_unpack(initialize_returns) } :
        IF r.raised # "none"
        THEN /\ setup' = [setup EXCEPT !.pc = "raised", !.raised = r.raised,
                                       !.auth = auth_result(c)]
             /\ UNCHANGED hass_data
        ELSE \E account \in { dict_update(setup.conf_account,
                                 (CONF_USER_ID :> r.value[1]) @@ (CONF_JWT :> r.value[2])) } :
                /\ setup' = [setup EXCEPT !.pc = "done", !.conf_account = account,
                                          !.auth = auth_result(c)]
                /\ hass_data' = [configured |-> TRUE, account |-> account]

(***************************************************************************)
(* camera.py: NestCamera.                                                  *)
(***************************************************************************)
\* the names camera.py imports from const.py
const_CONF_ISSUE_TOKEN == ""
const_CONF_COOKIE == ""
const_CONF_REGION == ""

\* what the camera server answers to get_image: a status and a body, or the
\* request raises
CameraAnswers ==
    { [status |-> "200", content |-> "image1"],
      [status |-> "401", content |-> "denied"],
      [status |-> "RequestException", content |-> "none"] }

\* timedelta(seconds=6) with video history, timedelta(seconds=30) without
SnapshotGaps == {6, 30}

NoCameraCall ==
    [thread |-> "none", ready |-> FALSE, requested |-> FALSE, reauth |-> FALSE,
     raised |-> "none", returned |-> "nothing"]

\* NestCamera.__init__ followed by the entity's first update()
NewCamera(gap, answer) ==
    [last_image |-> None, next_snapshot_at |-> NoneTime,
     time_between_snapshots |-> gap, server |-> answer,
     pc |-> "idle", call |-> NoCameraCall]

_ready_for_snapshot(next_snapshot_at, t) ==
    next_snapshot_at = NoneTime \/ t > next_snapshot_at

\* the dictionary lookups of camera_image before the request is sent
camera_image_lookups(h) ==
    IF ~h.configured THEN "KeyError"                          \* hass.data[DATA_NEST_CONFIG]
    ELSE IF CONF_JWT \notin DOMAIN h.account THEN "KeyError"  \* account_conf[CONF_JWT]
    ELSE IF const_CONF_REGION \notin conf_keys THEN "KeyError" \* conf[CONF_REGION]
    ELSE "none"

\* the dictionary lookups of the re-authentication call's arguments
camera_image_reauth_lookups ==
    IF {const_CONF_ISSUE_TOKEN, const_CONF_COOKIE, const_CONF_REGION} \subseteq conf_keys
    THEN "none" ELSE "KeyError"

\* camera_image up to its return, or up to the call of ga_auth.initialize
camera_image(c) ==
    /\ cam.pc = "idle"
    /\ \A d \in Callers : pc[d] = "idle"
    /\ setup.pc # "initialize"
    /\ LET t == datetime_utcnow(now)
           ready == _ready_for_snapshot(cam.next_snapshot_at, t)
           failed == camera_image_lookups(hass_data)
           call == [NoCameraCall EXCEPT !.thread = c, !.ready = ready]
       IN  IF ~ready
           THEN /\ cam' = [cam EXCEPT !.call = [call EXCEPT !.returned = cam.last_image]]
                /\ UNCHANGED <<authvars, clientvars, wrappervars>>
           ELSE IF failed # "none"
           THEN /\ cam' = [cam EXCEPT !.call = [call EXCEPT !.raised = failed]]
                /\ UNCHANGED <<authvars, clientvars, wrappervars>>
           ELSE IF cam.server.status = "RequestException"
           THEN /\ cam' = [cam EXCEPT !.call = [call EXCEPT !.requested = TRUE,
                                                            !.raised = "RequestException"]]
                /\ UNCHANGED <<authvars, clientvars, wrappervars>>
           ELSE IF cam.server.status = "200"
           THEN /\ cam' = [cam EXCEPT
                              !.next_snapshot_at = t + cam.time_between_snapshots,
                              !.last_image = cam.server.content,
                              !.call = [call EXCEPT !.requested = TRUE,
                                                    !.returned = cam.server.content]]
                /\ UNCHANGED <<authvars, clientvars, wrappervars>>
           ELSE IF camera_image_reauth_lookups # "none"
           THEN /\ cam' = [cam EXCEPT !.call = [call EXCEPT !.requested = TRUE,
                                                 !.raised = camera_image_reauth_lookups]]
                /\ UNCHANGED <<authvars, clientvars, wrappervars>>
           ELSE /\ initialize_call(c)
                /\ cam' = [cam EXCEPT !.pc = "initialize",
                                      !.call = [call EXCEPT !.requested = TRUE,
                                                            !.reauth = TRUE]]
    /\ UNCHANGED <<setup, broker>>

\* camera_image after ga_auth.initialize: return self._last_image, unless
\* initialize raised
camera_image_resume(c) ==
    cam' = [cam EXCEPT !.pc = "idle",
                       !.call = IF pc[c] = "raised"
                                THEN [@ EXCEPT !.raised = frame[c].raised]
                                ELSE [@ EXCEPT !.returned = cam.last_image]]

\* the camera server's answer changes
camera_server_change ==
    /\ cam.pc = "idle"
    /\ cam.call.thread # "none"
    /\ \E a \in CameraAnswers \ {cam.server} :
          cam' = [cam EXCEPT !.server = a, !.call = NoCameraCall]
    /\ UNCHANGED <<setup, broker, authvars, clientvars, wrappervars>>

(***************************************************************************)
(* __init__.py: async_setup_entry.                                         *)
(***************************************************************************)
\* async_setup_entry up to the construction of the client: Nest(access_token,
\* user_id) with the JWT and the user id that the account map holds
async_setup_entry ==
    /\ client = "new"
    /\ hass_data.configured
    /\ IF {CONF_JWT, CONF_USER_ID} \subseteq DOMAIN hass_data.account
       THEN Nest___init__(hass_data.account[CONF_JWT], hass_data.account[CONF_USER_ID])
       ELSE /\ client' = "dead"
            /\ UNCHANGED <<storage, last_update, allocs, last, session>>
            /\ UNCHANGED <<now, utc_offset, server, authvars, hassvars, wrappervars>>

(***************************************************************************)
(* __init__.py: nest_update_event_broker, start_up and shut_down.          *)
(***************************************************************************)
\* the class gone wrong: Nest objects have an update_event
Nest_attributes_event ==
    {"_access_token", "_user_id", "_storage", "_last_update", "update_event",
     "structures", "cameras", "thermostats", "wheres",
     "thermostat", "camera", "structure", "where",
     "_should_update", "update", "get", "post", "_handle_response", "_default_headers"}

\* what a Nest object has: the attributes set by __init__, and the properties
\* and methods of the class
Nest_attributes ==
    {"_access_token", "_user_id", "_storage", "_last_update",
     "structures", "cameras", "thermostats", "wheres",
     "thermostat", "camera", "structure", "where",
     "_should_update", "update", "get", "post", "_handle_response", "_default_headers"}

\* nest.<name>: the attribute lookup succeeds or raises AttributeError
hasattr(name) == name \in Nest_attributes

\* before start_up: the host is running, no thread, the event (a
\* threading.Event, if there is one) is not set, nobody has called set()
NoBroker ==
    [pc |-> "idle", raised |-> "none", is_running |-> TRUE, event |-> FALSE,
     stop |-> "none", shut_down_raised |-> "none", signalled |-> FALSE]

\* start_up: starts the thread that runs nest_update_event_broker(hass, nest)
start_up ==
    /\ client = "ready"
    /\ broker.pc = "idle" /\ broker.is_running
    /\ broker' = [broker EXCEPT !.pc = "while"]
    /\ UNCHANGED <<setup, cam, clientvars, authvars, wrappervars>>

\* one statement of nest_update_event_broker; wait() blocks until the event
\* is set, and an exception ends the thread
nest_update_event_broker ==
    /\ broker.pc \in {"while", "wait", "check", "clear", "dispatch"}
    /\ (broker.pc = "wait" /\ hasattr("update_event")) => broker.event
    /\ broker' =
          IF broker.pc = "while"
          THEN [broker EXCEPT !.pc = IF broker.is_running THEN "wait" ELSE "done"]
          ELSE IF broker.pc = "wait"
          THEN IF hasattr("update_event")
               THEN [broker EXCEPT !.pc = "check"]
               ELSE [broker EXCEPT !.pc = "done", !.raised = "AttributeError"]
          ELSE IF broker.pc = "check"
          THEN [broker EXCEPT !.pc = IF broker.is_running THEN "clear" ELSE "done"]
          ELSE IF broker.pc = "clear"
          THEN [broker EXCEPT !.pc = "dispatch", !.event = FALSE]
          ELSE [broker EXCEPT !.pc = "while", !.signalled = FALSE]
    /\ UNCHANGED <<setup, cam, clientvars, authvars, wrappervars>>

\* the streaming layer signals new data while the host runs:
\* nest.update_event.set()
update_event_set ==
    /\ client = "ready"
    /\ broker.is_running /\ ~broker.signalled
    /\ broker' = IF hasattr("update_event")
                 THEN [broker EXCEPT !.signalled = TRUE, !.event = TRUE]
                 ELSE [broker EXCEPT !.signalled = TRUE]
    /\ UNCHANGED <<setup, cam, clientvars, authvars, wrappervars>>

\* the host stops, which it does after it has started: hass.is_running is
\* False from now on, and EVENT_HOMEASSISTANT_STOP is fired
hass_stop ==
    /\ broker.pc # "idle"
    /\ broker.is_running
    /\ broker' = [broker EXCEPT !.is_running = FALSE, !.stop = "fired"]
    /\ UNCHANGED <<setup, cam, clientvars, authvars, wrappervars>>

\* shut_down, the listener of EVENT_HOMEASSISTANT_STOP: nest.update_event.set()
shut_down ==
    /\ broker.stop = "fired"
    /\ broker' = IF hasattr("update_event")
                 THEN [broker EXCEPT !.stop = "handled", !.event = TRUE]
                 ELSE [broker EXCEPT !.stop = "handled",
                                     !.shut_down_raised = "AttributeError"]
    /\ UNCHANGED <<setup, cam, clientvars, authvars, wrappervars>>

(***************************************************************************)
(* The call sites of ga_auth.initialize.                                   *)
(***************************************************************************)
\* initialize returns or raises into the code that called it
initialize_return(c) ==
    /\ initialize_exit(c)
    /\ IF c = SetupThread /\ setup.pc = "initialize"
       THEN async_setup_resume(c) /\ UNCHANGED <<cam, broker>>
       ELSE IF cam.pc = "initialize" /\ cam.call.thread = c
       THEN camera_image_resume(c) /\ UNCHANGED <<setup, broker, hass_data>>
       ELSE UNCHANGED <<hass_data, hassvars>>

HassIdle ==
    /\ setup = NoSetup(TRUE)
    /\ cam = NewCamera(GateSeconds, [status |-> "200", content |-> "image1"])
    /\ broker = NoBroker

(***************************************************************************)
(* Specifications.                                                         *)
(***************************************************************************)
Init ==
    /\ ClientInit /\ AuthIdle /\ HassIdle /\ WrappersIdle
    /\ hass_data = [configured |-> FALSE, account |-> <<>>]

Next == Nest_init \/ NestSensorDevice_update \/ Server_change \/ Tick

Spec == Init /\ [][Next]_vars

\* the decoding of buckets, over the whole bucket table
DecodeUuids == {<<"u1">>, <<"device">>}

DecodeBuckets ==
    { Bucket(p, u, P2) : p \in DOMAIN BUCKETS, u \in DecodeUuids }
        \cup {Bucket("where", <<"u1">>, P1)}

DecodeResponses == UNION { [1..n -> DecodeBuckets] : n \in 0..MaxBuckets }

InitDecode ==
    /\ client = "new" /\ storage = Storage_init /\ last_update = NoneTime
    /\ allocs = 0 /\ now = 0 /\ last = NoCall /\ session = NoSession
    /\ utc_offset = 0
    /\ server \in { <<"ok", [updated_buckets |-> r]>> : r \in DecodeResponses }
    /\ AuthIdle /\ HassIdle /\ WrappersIdle
    /\ hass_data = [configured |-> FALSE, account |-> <<>>]

NextDecode == Nest_init \/ NestSensorDevice_update \/ Tick

SpecDecode == InitDecode /\ [][NextDecode]_vars

\* one client polling a server whose answer stays the same, and calls of the
\* module function nest_object
NextObject == Nest_init \/ NestSensorDevice_update \/ Tick \/ nest_object_call

SpecObject == Init /\ [][NextObject]_vars

\* callers of initialize that are not kept apart: each thread calls once,
\* at any time
initialize_concurrent(c) == initialize_call(c) /\ UNCHANGED hassvars

InitRace ==
    /\ AuthIdle
    /\ hass_data = [configured |-> TRUE, account |-> <<>>]
    /\ client = "new" /\ storage = Storage_init /\ last_update = NoneTime
    /\ allocs = 0 /\ now = 0 /\ utc_offset = 0
    /\ server = <<"ok", ErrorBody>> /\ last = NoCall /\ session = NoSession
    /\ HassIdle /\ WrappersIdle

NextRace ==
    \/ \E c \in Callers : initialize_concurrent(c)
    \/ \E c \in Callers : get_google_access_token(c)
    \/ \E c \in Callers : get_jwt(c)
    \/ \E c \in Callers : get_token(c)
    \/ \E c \in Callers : store_jwt(c)
    \/ \E c \in Callers : store_transport_url(c)
    \/ \E c \in Callers : store_user_id(c)

SpecRace == InitRace /\ [][NextRace]_vars

\* the methods of the wrappers, called on a thermostat, a structure and a camera
InitWrappers ==
    /\ ClientInit /\ AuthIdle /\ HassIdle
    /\ utc_offset = 0 /\ server = <<"ok", ErrorBody>>
    /\ hass_data = [configured |-> FALSE, account |-> <<>>]
    /\ device_data \in { NewDevices(t) : t \in ThermostatData }
    /\ writes = <<>>
    /\ op = NoOp

NextWrappers ==
    \/ Thermostat__round_temp_call
    \/ Thermostat_target_set
    \/ Thermostat_temperature_set
    \/ Thermostat_eco_temperature_set
    \/ Thermostat_mode_set
    \/ Thermostat_fan_set
    \/ Structure_away_set
    \/ Structure_name_set
    \/ Camera_is_streaming_set
    \/ Structure_set_eta
    \/ Structure_cancel_eta
    \/ service_set_eta
    \/ service_cancel_eta

SpecWrappers == InitWrappers /\ [][NextWrappers]_vars

\* the broker thread next to the host: the thread takes its steps, and the
\* host calls the listener of an event it has fired
InitBroker ==
    /\ ClientInit /\ AuthIdle /\ HassIdle /\ WrappersIdle
    /\ hass_data = [configured |-> FALSE, account |-> <<>>]

NextBroker ==
    \/ Nest_init
    \/ start_up
    \/ nest_update_event_broker
    \/ update_event_set
    \/ hass_stop
    \/ shut_down

SpecBroker ==
    /\ InitBroker /\ [][NextBroker]_vars
    /\ WF_vars(start_up) /\ WF_vars(nest_update_event_broker) /\ WF_vars(shut_down)


\* a client built from the account map, its polls, and re-authentications
InitSession ==
    /\ AuthIdle /\ HassIdle /\ WrappersIdle
    /\ hass_data = [configured |-> TRUE, account |-> <<>>]
    /\ client = "new" /\ storage = Storage_init /\ last_update = NoneTime
    /\ allocs = 0 /\ now = 0 /\ utc_offset = 0
    /\ server = <<"ok", [updated_buckets |-> <<>>]>>
    /\ last = NoCall /\ session = NoSession

NextSession ==
    \/ \E c \in Callers : initialize_alone(c)
    \/ \E c \in Callers : get_google_access_token(c)
    \/ \E c \in Callers : get_jwt(c)
    \/ \E c \in Callers : get_token(c)
    \/ \E c \in Callers : store_jwt(c)
    \/ \E c \in Callers : store_transport_url(c)
    \/ \E c \in Callers : store_user_id(c)
    \/ \E c \in Callers : initialize_return(c)
    \/ async_setup_entry
    \/ NestSensorDevice_update
    \/ Tick

SpecSession == InitSession /\ [][NextSession]_vars

\* the auth sequence on its own, one call at a time
InitAuth ==
    /\ AuthInit
    /\ client = "new" /\ storage = Storage_init /\ last_update = NoneTime
    /\ allocs = 0 /\ now = 0 /\ utc_offset = 0
    /\ server = <<"ok", ErrorBody>> /\ last = NoCall /\ session = NoSession
    /\ setup \in { NoSetup(d) : d \in BOOLEAN }
    /\ cam \in { NewCamera(g, a) : g \in SnapshotGaps, a \in CameraAnswers }
    /\ broker = NoBroker
    /\ WrappersIdle

NextAuth ==
    \/ \E c \in Callers : initialize_alone(c)
    \/ async_setup_call
    \/ \E c \in Callers : camera_image(c)
    \/ camera_server_change
    \/ \E c \in Callers : get_google_access_token(c)
    \/ \E c \in Callers : get_jwt(c)
    \/ \E c \in Callers : get_token(c)
    \/ \E c \in Callers : store_jwt(c)
    \/ \E c \in Callers : store_transport_url(c)
    \/ \E c \in Callers : store_user_id(c)
    \/ \E c \in Callers : initialize_return(c)

SpecAuth == InitAuth /\ [][NextAuth]_vars

(***************************************************************************)
(* Vocabulary of the properties.                                           *)
(***************************************************************************)
\* a step that is one update() call: neither the clock nor the server moves
CallStep == now' = now /\ server' = server

\* the buckets of the server's answer, when it has any
HasBuckets == server[1] = "ok" /\ "updated_buckets" \in DOMAIN server[2]
Resp == IF HasBuckets THEN server[2].updated_buckets ELSE <<>>

\* a call that issued the POST and returned normally
OkPollStep == CallStep /\ last'.polled /\ last'.raised = "none"

\* the object a bucket "{prefix}.{uuid}" is addressed to
KnownPrefix(b) ==
    /\ Len(b.object_key) >= 2
    /\ b.object_key[1] \in DOMAIN BUCKETS
    /\ b.object_key[2] = "."
AddrType(b) == BUCKETS[b.object_key[1]]
AddrId(b) == SubSeq(b.object_key, 3, Len(b.object_key))
Addresses(b, t, id) == KnownPrefix(b) /\ AddrType(b) = t /\ AddrId(b) = id

Has(items, t, id) == t \in DOMAIN items /\ id \in DOMAIN items[t]
Entries(items) == { <<t, id>> \in UNION { {t2} \X DOMAIN items[t2] : t2 \in DOMAIN items } : TRUE }
Objects(items) == { items[e[1]][e[2]].obj : e \in Entries(items) }
AllKeys == {"name", "wheres"}
Greatest(S) == CHOOSE x \in S : \A y \in S : y <= x

Thermostat_u1 == storage[THERMOSTAT][<<"u1">>]

(***************************************************************************)
(* C1.  Update gating: once an update() polled successfully at time T,     *)
(* every update() call made at a time in [T, T+30s] returns without a      *)
(* network request and without changing storage or _last_update, whatever  *)
(* the UTC offset of the host's local time.  (_last_update is the UTC time *)
(* of the last successful poll.)                                           *)
(***************************************************************************)
C1_GatedWithinWindow ==
    [][ ( /\ CallStep
          /\ last_update # NoneTime
          /\ now >= last_update
          /\ now <= last_update + GateSeconds )
        => ( /\ ~last'.polled
             /\ storage' = storage
             /\ last_update' = last_update ) ]_vars

(***************************************************************************)
(* C2.  After update() returns from a successful poll, every object        *)
(* addressed by a returned known-prefix bucket is in storage (a known id   *)
(* keeps its wrapper, a first-seen id gets a new one), each key of its raw *)
(* data holds the value of the last returned bucket addressed to it that   *)
(* carries the key, and keys carried by no returned bucket are as before.  *)
(***************************************************************************)
C2_MergeEveryBucket ==
    [][ OkPollStep =>
        \A i \in 1..Len(Resp) : KnownPrefix(Resp[i]) =>
            LET t == AddrType(Resp[i])
                id == AddrId(Resp[i])
                known == Has(storage, t, id)
            IN  /\ Has(storage', t, id)
                /\ IF known
                   THEN storage'[t][id].obj = storage[t][id].obj
                   ELSE storage'[t][id].obj \notin Objects(storage)
                /\ \A k \in AllKeys :
                      LET carriers == { j \in 1..Len(Resp) :
                                          Addresses(Resp[j], t, id) /\ k \in DOMAIN Resp[j].value }
                          data == storage'[t][id].data
                      IN  IF carriers # {}
                          THEN k \in DOMAIN data /\ data[k] = Resp[Greatest(carriers)].value[k]
                          ELSE IF known /\ k \in DOMAIN storage[t][id].data
                          THEN k \in DOMAIN data /\ data[k] = storage[t][id].data[k]
                          ELSE k \notin DOMAIN data ]_vars

\* a poll returned shared.u1 {name: 2, wheres: 1} and then device.u1 {name: 1}:
\* name is that of the later bucket, wheres that of the earlier one
C2_Witness ==
    /\ last.polled /\ last.fresh /\ last.raised = "none"
    /\ Resp = <<Bucket("shared", <<"u1">>, P2), Bucket("device", <<"u1">>, P1)>>
    /\ Has(storage, THERMOSTAT, <<"u1">>)
    /\ Thermostat_u1.data = [name |-> 1, wheres |-> 1]

(***************************************************************************)
(* C3.  A poll that fails with a network exception (RequestException) or   *)
(* with a KeyError while the response is parsed is logged by update() and  *)
(* re-raised, the same exception, to the caller.                           *)
(***************************************************************************)
C3_FailedPollReraises ==
    (last.polled /\ last.fresh) =>
        /\ server[1] = "RequestException" =>
              last.raised = "RequestException" /\ "RequestException" \in last.logged
        /\ (server[1] = "ok" /\ server[2] = ErrorBody) =>
              last.raised = "KeyError" /\ "KeyError" \in last.logged

(***************************************************************************)
(* C4.  At the entity update call site, an update() that fails with a      *)
(* stale-session KeyError starts a re-authentication (ga_auth.initialize)  *)
(* before the handler ends.                                                *)
(***************************************************************************)
C4_EntityUpdateReauthenticates ==
    [][ ( /\ CallStep
          /\ last'.site = "entity"
          /\ last'.polled
          /\ last'.raised = "KeyError" )
        => \E c \in Callers : http_log'[c] # http_log[c] ]_vars

(***************************************************************************)
(* C5.  ga_auth.initialize performs exactly three HTTP exchanges, in the   *)
(* order cookie -> Google access token, access token -> Nest JWT, JWT ->   *)
(* session; each is issued only after the one before succeeded and carries *)
(* its output, none is repeated, and on return the account dict holds the  *)
(* JWT of the second and the transport URL and user id of the third.       *)
(***************************************************************************)
ExchangeOrder == <<"issue_token", "URL_JWT", "URL_AUTH">>

C5_ThreeChainedExchanges ==
    \A c \in Callers :
        LET log == http_log[c]
        IN  /\ Len(log) <= 3
            /\ \A i \in 1..Len(log) : log[i].url = ExchangeOrder[i]
            /\ Len(log) >= 1 => log[1].sent = "cookie"
            /\ \A i \in 2..Len(log) :
                  /\ log[i - 1].got.raised = "none"
                  /\ log[i].sent = log[i - 1].got.value
            /\ pc[c] \in {"store_jwt", "store_transport_url", "store_user_id"}
                  => Len(log) = 3 /\ log[3].got.raised = "none"
            /\ pc[c] = "returned" =>
                  /\ Len(log) = 3
                  /\ log[3].got.raised = "none"
                  /\ hass_data.account =
                        [jwt |-> log[2].got.value,
                         transport_url |-> log[3].got.value.transport_url,
                         user_id |-> log[3].got.value.userid]

\* a call has returned and replaced what an earlier call had stored
C5_Witness ==
    \E c \in Callers :
        /\ pc[c] = "returned"
        /\ entry_account[c] # <<>>
        /\ hass_data.account # entry_account[c]

(***************************************************************************)
(* C6.  If one of the three exchanges fails, initialize propagates that    *)
(* exception and the account dict is exactly as it was before the call.    *)
(***************************************************************************)
FailedExchange(c) ==
    /\ pc[c] = "raised"
    /\ http_log[c] # <<>>
    /\ http_log[c][Len(http_log[c])].got.raised # "none"

C6_FailureWritesNothing ==
    \A c \in Callers : FailedExchange(c) =>
        /\ frame[c].raised = http_log[c][Len(http_log[c])].got.raised
        /\ hass_data.account = entry_account[c]

\* the session exchange failed on a missing field while an earlier call's
\* values were stored
C6_Witness ==
    \E c \in Callers :
        /\ FailedExchange(c)
        /\ Len(http_log[c]) = 3
        /\ frame[c].raised = "KeyError"
        /\ DOMAIN entry_account[c] = {CONF_JWT, CONF_TRANSPORT_URL, CONF_USER_ID}

(***************************************************************************)
(* C7.  A (type, id) entry once in storage is never removed and always     *)
(* maps to the wrapper object created at its first sighting.               *)
(***************************************************************************)
C7_EntriesKeepTheirWrapper ==
    [][ \A e \in Entries(storage) :
            /\ Has(storage', e[1], e[2])
            /\ storage'[e[1]][e[2]].obj = storage[e[1]][e[2]].obj ]_vars

\* two entries exist and an entity update has just failed on a stale session
C7_Witness ==
    /\ Cardinality(Entries(storage)) = 2
    /\ last.site = "entity" /\ last.polled /\ last.fresh
    /\ last.raised = "KeyError" /\ server[2] = ErrorBody

(***************************************************************************)
(* C8.  For every wrapper in storage, id and serial equal the id of its    *)
(* storage key, the id it was created with, at all times.                  *)
(***************************************************************************)
C8_IdentityIsTheKey ==
    \A e \in Entries(storage) :
        /\ NestBase_id(storage[e[1]][e[2]]) = e[2]
        /\ NestBase_serial(storage[e[1]][e[2]]) = e[2]

\* a wrapper whose raw data has been merged into since it was created
C8_Witness ==
    /\ Has(storage, THERMOSTAT, <<"u1">>)
    /\ Thermostat_u1.data = [name |-> 1, wheres |-> 1]
    /\ NestBase_serial(Thermostat_u1) = <<"u1">>
    /\ last.site = "entity"

(***************************************************************************)
(* C9, as stated.  After a successful poll that returned one bucket with   *)
(* payload P for an already known object, the object's raw data equals P.  *)
(***************************************************************************)
OnlyBucketFor(i) ==
    /\ KnownPrefix(Resp[i])
    /\ Has(storage, AddrType(Resp[i]), AddrId(Resp[i]))
    /\ \A j \in 1..Len(Resp) :
          Addresses(Resp[j], AddrType(Resp[i]), AddrId(Resp[i])) => j = i

C9_ReplacedWholesale ==
    [][ OkPollStep =>
        \A i \in 1..Len(Resp) : OnlyBucketFor(i) =>
            storage'[AddrType(Resp[i])][AddrId(Resp[i])].data = Resp[i].value ]_vars

(***************************************************************************)
(* C9, amended.  After such a poll every key of P holds P's value and      *)
(* every key that was present before and is absent from P is still present *)
(* with its previous value.                                                *)
(***************************************************************************)
C9_MergedShallow ==
    [][ OkPollStep =>
        \A i \in 1..Len(Resp) : OnlyBucketFor(i) =>
            LET before == storage[AddrType(Resp[i])][AddrId(Resp[i])].data
                after == storage'[AddrType(Resp[i])][AddrId(Resp[i])].data
                P == Resp[i].value
            IN  /\ DOMAIN after = DOMAIN before \cup DOMAIN P
                /\ \A k \in DOMAIN P : after[k] = P[k]
                /\ \A k \in DOMAIN before \ DOMAIN P : after[k] = before[k] ]_vars

\* the only returned bucket was device.u1 {name: 1}; wheres is still there
C9_Witness ==
    /\ last.polled /\ last.fresh /\ last.raised = "none"
    /\ Resp = <<Bucket("device", <<"u1">>, P1)>>
    /\ Has(storage, THERMOSTAT, <<"u1">>)
    /\ Thermostat_u1.data = [name |-> 1, wheres |-> 1]

(***************************************************************************)
(* C10.  Replaying an identical payload is idempotent: a successful poll   *)
(* that returns the buckets the successful poll before it returned leaves  *)
(* every wrapper's raw data as it was and creates no storage entry, and    *)
(* set(P); set(P) leaves a wrapper as set(P) did.                          *)
(***************************************************************************)
C10_ReplayIsIdempotent ==
    /\ [][ (OkPollStep /\ last'.replay) =>
              (storage' = storage /\ allocs' = allocs) ]_vars
    /\ [](\A e \in Entries(storage) : \A b \in SampleBuckets :
             LET once == NestBase_set(storage[e[1]][e[2]], b.value)
             IN  NestBase_set(once, b.value) = once)

\* the same two buckets were returned by two successful polls in a row
C10_Witness ==
    /\ last.polled /\ last.replay /\ last.raised = "none"
    /\ Resp = <<Bucket("device", <<"u1">>, P1), Bucket("where", <<"u1">>, P2)>>
    /\ Cardinality(Entries(storage)) = 2

(***************************************************************************)
(* C11.  A returned bucket whose object_key begins with none of the table  *)
(* prefixes followed by '.' is ignored: a poll does to storage, and        *)
(* raises, exactly what it would had the response not contained such       *)
(* buckets; a response of such buckets only changes nothing and raises     *)
(* nothing.                                                                *)
(***************************************************************************)
C11_UnknownPrefixIgnored ==
    [][ (CallStep /\ last'.polled /\ HasBuckets) =>
        \E r \in { update(storage, allocs, last_update, now, utc_offset, "ok",
                          [updated_buckets |-> SelectSeq(Resp, KnownPrefix)]) } :
            /\ storage' = r.items
            /\ last'.raised = r.raised
            /\ SelectSeq(Resp, KnownPrefix) = <<>> =>
                  (storage' = storage /\ last'.raised = "none") ]_vars

\* a poll returned topaz.u1 and then device.u1: only the thermostat is stored
C11_Witness ==
    /\ last.polled /\ last.fresh /\ last.raised = "none"
    /\ Resp = <<Bucket("topaz", <<"u1">>, P1), Bucket("device", <<"u1">>, P1)>>
    /\ Entries(storage) = {<<THERMOSTAT, <<"u1">>>>}
    /\ Thermostat_u1.data = P1

(***************************************************************************)
(* C12.  For every prefix p of the bucket table and every uuid u, a poll   *)
(* that returns a bucket "p.u" leaves a wrapper of the class the table     *)
(* gives for p (link, device, schedule, shared: Thermostat; where: Where;  *)
(* quartz: Camera; structure: Structure) stored under id exactly u, and    *)
(* buckets of one class and one uuid share one storage entry.  A uuid      *)
(* contains no '.'.                                                        *)
(***************************************************************************)
ClassOfPrefix ==
    [link |-> "Thermostat", device |-> "Thermostat", schedule |-> "Thermostat",
     shared |-> "Thermostat", where |-> "Where", quartz |-> "Camera",
     structure |-> "Structure"]

Wrappers(items) == { <<items[e[1]][e[2]].cls, e[2]>> : e \in Entries(items) }

C12_DecodeByTable ==
    [][ OkPollStep =>
        /\ \A i \in 1..Len(Resp) :
              \A p \in DOMAIN ClassOfPrefix : \A u \in DecodeUuids :
                  Resp[i].object_key = <<p, ".">> \o u =>
                      \E e \in Entries(storage') :
                          /\ e[2] = u
                          /\ storage'[e[1]][e[2]].cls = ClassOfPrefix[p]
                          /\ NestBase_id(storage'[e[1]][e[2]]) = u
        /\ Wrappers(storage') =
              Wrappers(storage) \cup
                  { <<ClassOfPrefix[Resp[i].object_key[1]], AddrId(Resp[i])>> :
                        i \in 1..Len(Resp) }
        /\ Cardinality(Entries(storage')) = Cardinality(Wrappers(storage')) ]_vars

\* link.device and shared.device were returned: one Thermostat, id "device"
C12_Witness ==
    /\ last.polled /\ last.raised = "none"
    /\ Resp = <<Bucket("link", <<"device">>, P2), Bucket("shared", <<"device">>, P2)>>
    /\ Entries(storage) = {<<THERMOSTAT, <<"device">>>>}
    /\ storage[THERMOSTAT][<<"device">>].cls = "Thermostat"

(***************************************************************************)
(* C13.  nest_object called with a type that no wrapper class handles logs *)
(* an error and raises ValueError, and only then.  An exception raised by  *)
(* nest_object inside update() aborts the cycle: it propagates to the      *)
(* caller, storage holds what the buckets before the failing one did and   *)
(* nothing of it or of the later ones, and _last_update is not advanced.   *)
(* (Every type of the bucket table has a handler, so the exception that    *)
(* nest_object raises inside update() is the KeyError of Where.__init__.)  *)
(***************************************************************************)
Unhandled(type) ==
    \A cls \in {"Where", "Device", "Structure", "ActivityZone", "CameraEvent",
                 "Thermostat", "SmokeCoAlarm", "Camera"} : ~is_handler_for(cls, type)

\* the poll of buckets 1..k of the answer, from the current state
PollOf(k) ==
    update(storage, allocs, last_update, now, utc_offset, "ok",
           [updated_buckets |-> SubSeq(Resp, 1, k)])

C14_SetupStoresSession ==
    (setup.domain /\ setup.pc \in {"done", "raised"} /\ setup.auth # None) =>
        /\ setup.pc = "done"
        /\ hass_data.configured
        /\ {CONF_JWT, CONF_USER_ID} \subseteq DOMAIN hass_data.account
        /\ hass_data.account[CONF_JWT] = setup.auth.jwt
        /\ hass_data.account[CONF_USER_ID] = setup.auth.userid

(***************************************************************************)
(* C15.  Re-authentication is not mutually excluded.  Each of the three    *)
(* assignments of initialize writes one key of the shared account from the *)
(* caller's own locals and leaves the other keys as it finds them, whoever *)
(* wrote them; so with two callers in initialize at once, each key ends up *)
(* holding the value of one of the two runs, and not all of the same run:  *)
(* the witness is an account with the JWT of one run and the user id of    *)
(* the other.                                                              *)
(***************************************************************************)
StoreKey ==
    [store_jwt |-> CONF_JWT, store_transport_url |-> CONF_TRANSPORT_URL,
     store_user_id |-> CONF_USER_ID]

Stored(c, label) ==
    CASE label = "store_jwt" -> frame[c].jwt
      [] label = "store_transport_url" -> frame[c].transport_url
      [] label = "store_user_id" -> frame[c].userid

C15_WritesAreUnguarded ==
    /\ [][ \A c \in Callers : (pc[c] \in DOMAIN StoreKey /\ pc'[c] # pc[c]) =>
             /\ DOMAIN hass_data'.account = DOMAIN hass_data.account \cup {StoreKey[pc[c]]}
             /\ hass_data'.account[StoreKey[pc[c]]] = Stored(c, pc[c])
             /\ \A k \in DOMAIN hass_data.account \ {StoreKey[pc[c]]} :
                   hass_data'.account[k] = hass_data.account[k] ]_vars
    /\ []((\A c \in Callers : pc[c] = "returned") =>
             /\ hass_data.account[CONF_JWT] \in { frame[c].jwt : c \in Callers }
             /\ hass_data.account[CONF_TRANSPORT_URL]
                   \in { frame[c].transport_url : c \in Callers }
             /\ hass_data.account[CONF_USER_ID] \in { frame[c].userid : c \in Callers })

\* both runs have returned: the account has the JWT of c1 and the user id of c2
C15_Witness ==
    /\ \A c \in Callers : pc[c] = "returned"
    /\ frame["c1"].jwt # frame["c2"].jwt
    /\ frame["c1"].userid # frame["c2"].userid
    /\ hass_data.account[CONF_JWT] = frame["c1"].jwt
    /\ hass_data.account[CONF_USER_ID] = frame["c2"].userid

(***************************************************************************)
(* C16.  A camera_image call that is due for a snapshot, with a session in *)
(* the shared configuration, while the camera server answers the image     *)
(* request with a non-200 status: the request is sent, no exception is     *)
(* raised, the re-authentication (ga_auth.initialize) is started, and the  *)
(* cached image and the snapshot gate are as before.                       *)
(***************************************************************************)
C16_NonOkFallsBackAndReauths ==
    [][ \A c \in Callers :
          ( /\ cam.pc = "idle"
            /\ cam'.call # cam.call
            /\ cam'.call.thread = c
            /\ cam'.call.ready
            /\ cam.server.status = "401"
            /\ hass_data.configured
            /\ CONF_JWT \in DOMAIN hass_data.account )
          => ( /\ cam'.call.requested
               /\ cam'.call.raised = "none"
               /\ cam'.call.reauth
               /\ pc'[c] = "get_google_access_token"
               /\ cam'.last_image = cam.last_image
               /\ cam'.next_snapshot_at = cam.next_snapshot_at ) ]_vars

(***************************************************************************)
(* C17.  A call of a mutating setter (thermostat target, temperature,      *)
(* mode, fan; structure away, name; camera is_streaming) sends exactly one *)
(* write, to the sub-path of the wrapper's type and carrying the new       *)
(* value, raises nothing and leaves the wrapper's raw data as it was.      *)
(***************************************************************************)
Setters ==
    {"Thermostat.target", "Thermostat.temperature", "Thermostat.mode",
     "Thermostat.fan", "Structure.away", "Structure.name", "Camera.is_streaming"}

C17_SetterPostsOnce ==
    [][ op'.name \in Setters =>
          /\ op'.raised = "none"
          /\ writes' = Append(writes, [path |-> op'.path, data |-> op'.data])
          /\ device_data' = device_data ]_vars

(***************************************************************************)
(* C18.  The data that a thermostat's temperature setter (target in either *)
(* mode, temperature, eco_temperature) hands to the write holds rounded    *)
(* values only: multiples of 0.5 for the Celsius scale, whole degrees      *)
(* otherwise.                                                              *)
(***************************************************************************)
TemperatureSetters ==
    {"Thermostat.target", "Thermostat.temperature", "Thermostat.eco_temperature"}

IsRounded(data, v) ==
    IF Thermostat_temperature_scale(data) = "C"
    THEN (2 * v) % TempUnit = 0
    ELSE v % TempUnit = 0

C18_TemperatureWritesAreRounded ==
    (op.name \in TemperatureSetters /\ op.path # "none") =>
        \A k \in DOMAIN op.data : IsRounded(device_data.thermostat, op.data[k])

(***************************************************************************)
(* C19.  _round_temp(t) is round(t * 2) / 2 when temperature_scale is 'C'  *)
(* and round(t) otherwise, round being Python's (of two nearest integers   *)
(* the even one): for Celsius a multiple of 0.5 at distance at most 0.25   *)
(* from t, otherwise a whole number at distance at most 0.5 from t.        *)
(***************************************************************************)
Abs(x) == IF x < 0 THEN -x ELSE x

\* r is the multiple of step nearest to t, of two nearest the even multiple
NearestMultiple(r, t, step) ==
    /\ r % step = 0
    /\ 2 * Abs(r - t) <= step
    /\ 2 * Abs(r - t) = step => (r \div step) % 2 = 0

C19_RoundTemp ==
    op.name = "Thermostat._round_temp" =>
        IF Thermostat_temperature_scale(device_data.thermostat) = "C"
        THEN /\ NearestMultiple(2 * op.result, 2 * op.value, TempUnit)
             /\ 4 * Abs(op.result - op.value) <= TempUnit
        ELSE NearestMultiple(op.result, op.value, TempUnit)

\* _round_temp(0.25) on the Celsius scale is 0.0: round(0.5) is 0
C19_Witness ==
    /\ op.name = "Thermostat._round_temp"
    /\ Thermostat_temperature_scale(device_data.thermostat) = "C"
    /\ 4 * op.value = TempUnit
    /\ op.result = 0

(***************************************************************************)
(* C20.  set_eta and cancel_eta with a trip id (and a begin) raise         *)
(* ValueError and send nothing on a structure without thermostat, and send *)
(* the one ETA write on a structure that a known thermostat belongs to;    *)
(* the services set_eta and cancel_eta act on a target structure exactly   *)
(* when it has a thermostat.                                               *)
(***************************************************************************)
HasThermostat ==
    dict_get(device_data.thermostat, "structure", NoneStr) = "structure.s1"

EtaCall ==
    \/ op.name = "Structure.set_eta" /\ op.value[1] # NoneStr /\ op.value[2] # NoneNumber
    \/ op.name = "Structure.cancel_eta" /\ op.value[1] # NoneStr

C20_EtaNeedsThermostat ==
    /\ EtaCall =>
          IF HasThermostat
          THEN /\ op.raised = "none"
               /\ Len(writes) = 1
               /\ writes[1].path = "structures" /\ DOMAIN writes[1].data = {"eta"}
          ELSE op.raised = "ValueError" /\ writes = <<>>
    /\ op.name \in {"service.set_eta", "service.cancel_eta"} =>
          (op.path # "none" <=> HasThermostat)

(***************************************************************************)
(* C21.  On a structure that a thermostat belongs to, set_eta(trip_id,     *)
(* begin, end) sends exactly one write, {'eta': {trip_id, begin, end}}     *)
(* with end = begin + 1 minute when end is None; with a None begin or a    *)
(* None trip_id it raises ValueError and sends nothing.                    *)
(***************************************************************************)
EtaWrite(trip_id, eta_begin, eta_end) ==
    [path |-> "structures",
     data |-> [eta |-> [trip_id |-> trip_id,
                        estimated_arrival_window_begin |-> eta_begin,
                        estimated_arrival_window_end |-> eta_end]]]

\* the write that set_eta(value[1], value[2], value[3]) is to send
SetEtaWrite(value) ==
    EtaWrite(value[1], isoformat(value[2]),
             isoformat(IF value[3] = NoneNumber THEN value[2] + EtaWindow ELSE value[3]))

C21_SetEtaWrite ==
    [][ (op'.name = "Structure.set_eta" /\ HasThermostat) =>
          IF op'.value[1] = NoneStr \/ op'.value[2] = NoneNumber
          THEN op'.raised = "ValueError" /\ writes' = writes
          ELSE /\ op'.raised = "none"
               /\ writes' = Append(writes, SetEtaWrite(op'.value)) ]_vars

(***************************************************************************)
(* C22.  On a structure that a thermostat belongs to, cancel_eta(trip_id)  *)
(* with a trip id sends exactly one write, {'eta': {trip_id, begin 0, end  *)
(* = the current time at the call}}.                                       *)
(***************************************************************************)
C22_CancelEtaWrite ==
    [][ (op'.name = "Structure.cancel_eta" /\ op'.value[1] # NoneStr /\ HasThermostat) =>
          /\ op'.raised = "none"
          /\ writes' = Append(writes, EtaWrite(op'.value[1], 0,
                                               isoformat(datetime_utcnow(now)))) ]_vars

(***************************************************************************)
(* C23.  When cancel_eta(t1) is followed at once by set_eta(t2, b, e) with *)
(* t2 # t1 (structure with thermostat, b and t2 not None), the step of     *)
(* set_eta sends one write, which carries t2, b and e (or b + 1 minute)    *)
(* and not the trip id of the cancelled trip.                              *)
(***************************************************************************)
C23_SetAfterCancel ==
    [][ ( /\ op.name = "Structure.cancel_eta" /\ op.value[1] # NoneStr
          /\ op'.name = "Structure.set_eta"
          /\ op'.value[1] # NoneStr /\ op'.value[2] # NoneNumber
          /\ op'.value[1] # op.value[1]
          /\ HasThermostat ) =>
          /\ Len(writes') = Len(writes) + 1
          /\ writes'[Len(writes')] = SetEtaWrite(op'.value)
          /\ writes'[Len(writes')].data.eta.trip_id # op.value[1] ]_vars

(***************************************************************************)
(* C24.  An update() call that issued the poll and raised leaves           *)
(* _last_update as it was before the call, and the update() call that      *)
(* comes next, however soon, issues the poll again.                        *)
(***************************************************************************)
FailedPoll(l) == l.polled /\ l.raised # "none"

C24_FailedUpdateDoesNotGate ==
    [][ /\ (CallStep /\ FailedPoll(last')) => last_update' = last_update
        /\ (CallStep /\ FailedPoll(last)) => last'.polled ]_vars

\* an entity's update() failed at a time when _last_update was set, and the
\* stamp is still the one of the earlier poll
C24_Witness ==
    /\ client = "ready" /\ last.site = "entity"
    /\ FailedPoll(last) /\ last.fresh
    /\ last_update # NoneTime /\ last_update < now

(***************************************************************************)
(* C25.  When update() raises while it processes the k-th bucket of a      *)
(* response, storage after the call is storage before the call with the    *)
(* buckets 1..k-1 applied: the objects they address are stored (created    *)
(* when first seen), each key of their raw data has the value of the last  *)
(* of these buckets that carries it, and everything else is as before.     *)
(***************************************************************************)
\* processing bucket i raises: it addresses a where that is neither stored
\* nor addressed by an earlier bucket, and its value has no 'wheres'
RaisesAt(i) ==
    /\ KnownPrefix(Resp[i]) /\ AddrType(Resp[i]) = WHERE
    /\ "wheres" \notin DOMAIN Resp[i].value
    /\ ~Has(storage, WHERE, AddrId(Resp[i]))
    /\ \A j \in 1..(i - 1) : ~Addresses(Resp[j], WHERE, AddrId(Resp[i]))

Least(S) == CHOOSE x \in S : \A y \in S : x <= y

\* storage' is storage with the buckets 1..m of the response applied
PrefixApplied(m) ==
    /\ Entries(storage') =
          Entries(storage) \cup
          { <<AddrType(Resp[i]), AddrId(Resp[i])>> : i \in { j \in 1..m : KnownPrefix(Resp[j]) } }
    /\ \A e \in Entries(storage') :
          LET t == e[1]
              id == e[2]
              known == Has(storage, t, id)
          IN  /\ IF known
                 THEN storage'[t][id].obj = storage[t][id].obj
                 ELSE storage'[t][id].obj \notin Objects(storage)
              /\ \A k \in AllKeys :
                    LET carriers == { j \in 1..m :
                                        Addresses(Resp[j], t, id) /\ k \in DOMAIN Resp[j].value }
                        data == storage'[t][id].data
                    IN  IF carriers # {}
                        THEN k \in DOMAIN data /\ data[k] = Resp[Greatest(carriers)].value[k]
                        ELSE IF known /\ k \in DOMAIN storage[t][id].data
                        THEN k \in DOMAIN data /\ data[k] = storage[t][id].data[k]
                        ELSE k \notin DOMAIN data

C25_PartialEffectsKept ==
    [][ (CallStep /\ FailedPoll(last') /\ HasBuckets) =>
          LET R == { i \in 1..Len(Resp) : RaisesAt(i) }
          IN  R # {} /\ PrefixApplied(Least(R) - 1) ]_vars

\* the constructor's poll created the thermostat u1 from the first bucket and
\* raised on the second: the thermostat is in storage after the failed call
C25_Witness ==
    /\ client = "dead" /\ last.polled /\ last.fresh /\ last.raised = "KeyError"
    /\ Resp = <<Bucket("device", <<"u1">>, P1), Bucket("where", <<"u1">>, P1)>>
    /\ Has(storage, THERMOSTAT, <<"u1">>)
    /\ ~Has(storage, WHERE, <<"u1">>)

(***************************************************************************)
(* C26.  While the host is running and the broker thread is scheduled      *)
(* fairly, every call of nest.update_event.set() is eventually followed by *)
(* a dispatch of SIGNAL_NEST_UPDATE made after it (or the host stops).     *)
(***************************************************************************)
C26_EverySetIsDispatched ==
    [](broker.signalled => <>(~broker.signalled \/ ~broker.is_running))

C29_ClientCredentialsAreFixed ==
    [][ /\ client = "ready" => session' = session
        /\ (client = "ready" /\ CallStep /\ last'.polled) =>
              /\ last'.headers.Authorization = <<"Basic", session.access_token>>
              /\ last'.url = <<"/api/0.1/user/", session.user_id, "/app_launch">>
        /\ (hass_data' # hass_data) => session' = session ]_vars

\* an entity's poll made when a re-authentication had put another JWT into
\* the account map: it was sent with the client's own token and user id
C29_Witness ==
    /\ client = "ready" /\ last.site = "entity" /\ last.polled
    /\ last.account_jwt \notin {"none", session.access_token}
    /\ last.headers.Authorization = <<"Basic", session.access_token>>
    /\ last.url[2] = session.user_id

(***************************************************************************)
(* C30.  A camera_image call made at a time up to _next_snapshot_at (the   *)
(* time T of the last successful fetch plus 30 seconds, or plus 6 with     *)
(* video history) sends no request and returns the cached image; a call    *)
(* that is due (no fetch yet, or the window is over), with a session in    *)
(* the shared configuration, sends the request and, on an answer 200,      *)
(* returns the fetched image and starts the next window at its own time.   *)
(***************************************************************************)
\* a step that is one camera_image call, up to its return or to the call of
\* ga_auth.initialize
CameraCallStep ==
    /\ cam.pc = "idle"
    /\ cam'.call.thread # "none"
    /\ cam'.call # cam.call \/ cam'.next_snapshot_at # cam.next_snapshot_at
    /\ hass_data.configured
    /\ CONF_JWT \in DOMAIN hass_data.account

====
